---- MODULE Spec2Model ----
(***************************************************************************)
(* Model of result::Result<OkType, ErrorType> and of its specialization    *)
(* result::Result<void, ErrorType> (src/src/result/result.hpp).            *)
(*                                                                         *)
(* A payload is a small integer.  A value that may be absent (the content  *)
(* of std::optional, the target of the pointer std::get_if returns, the    *)
(* value member of Ok<void>, what a void function returns) is a tuple of   *)
(* length at most one: <<>> is "nothing", <<v>> is "v".                    *)
(*                                                                         *)
(* Payload copies and moves are taken not to throw (Ok and Error declare   *)
(* their constructors noexcept).  A payload that has been moved from is    *)
(* left "valid but unspecified": any value of its type.                    *)
(***************************************************************************)
EXTENDS Integers, Sequences, FiniteSets, TLC

\* Payloads are the integers 0..MaxVal (arithmetic wraps at MaxVal + 1).
MaxVal == 2

Vals == 0..MaxVal
\* The two Result objects the caller holds.
Slots == {1, 2}

\* constexpr static inline std::size_t OkIndex / ErrorIndex
OkIndex == 0
ErrorIndex == 1

VARIABLES
    res,                  \* res[i]: the Result object the caller holds in slot i
    hasErrorDescription,  \* HasErrorDescription<ErrorType>, fixed at build time
    last                  \* the last operation performed and what it gave back

vars == <<res, hasErrorDescription, last>>

(***************************************************************************)
(* Construction tags.                                                      *)
(***************************************************************************)
Ok(v) == [tag |-> "Ok", value |-> <<v>>]
OkVoid == [tag |-> "Ok", value |-> <<>>]
Error(e) == [tag |-> "Error", value |-> <<e>>]

(***************************************************************************)
(* Caller-supplied transforms.  A transform is a non-empty sequence of     *)
(* primitive functions applied left to right, so that <<f, g>> is          *)
(* x => g(f(x)).                                                           *)
(*   "inc"  : x => x + 1         "dbl"  : x => x * 2                        *)
(*   "sink" : x => void          "k"    : () => 1       "noop" : () => void *)
(***************************************************************************)
Unary == {"inc", "dbl", "sink"}
Nullary == {"k", "noop"}
VoidReturning == {"sink", "noop"}

Prim(p, a) ==
    CASE p = "inc" -> <<(a[1] + 1) % (MaxVal + 1)>>
      [] p = "dbl" -> <<(2 * a[1]) % (MaxVal + 1)>>
      [] p = "sink" -> <<>>
      [] p = "k" -> <<1>>
      [] p = "noop" -> <<>>

RECURSIVE Invoke(_, _)
Invoke(f, a) == IF f = <<>> THEN a ELSE Invoke(Tail(f), Prim(Head(f), a))

\* std::is_same_v<NewOkType, void>
ReturnsVoid(f) == f[Len(f)] \in VoidReturning

\* The transforms the caller passes: a single function each.
Primitives == {<<p>> : p \in Unary \cup Nullary}

\* F of map_error: its result is stored in an Error<NewErrorType>
ErrorTransforms == {f \in Primitives : f[1] \in Unary /\ ~ReturnsVoid(f)}

Call(f, a) == [f |-> f, arg |-> a]

(***************************************************************************)
(* Storage.                                                                *)
(***************************************************************************)
\* std::variant<OkType, ErrorType> m_value
GenericResult(index, value) ==
    [spec |-> "generic", m_value |-> [index |-> index, value |-> value]]

\* std::optional<ErrorType> m_error
VoidResult(m_error) == [spec |-> "void", m_error |-> m_error]

\* std::get_if<I>(&m_value): the alternative when it is the active one
GetIf(I, m_value) == IF m_value.index = I THEN <<m_value.value>> ELSE <<>>

(***************************************************************************)
(* Failure objects.                                                        *)
(***************************************************************************)
construct_message(e, described) ==
    IF described THEN <<"Failed to unwrap Result: ", e>>
    ELSE <<"Failed to unwrap Result">>

BadUnwrapException(e, described) ==
    [type |-> "BadUnwrapException", m_error |-> <<e>>,
     m_message |-> construct_message(e, described)]

RuntimeError ==
    [type |-> "runtime_error",
     what |-> <<"Failed to access error of a successful Result">>]

(***************************************************************************)
(* What a member function gives back: the value returned (value: a         *)
(* payload, result: a Result, flag: a bool), the exception thrown, the     *)
(* invocations of the transform it made, and the object it was called on   *)
(* as the call leaves it.                                                  *)
(***************************************************************************)
Outcome(self) ==
    [value |-> <<>>, result |-> <<>>, flag |-> <<>>, thrown |-> <<>>,
     calls |-> <<>>, self |-> self]

Return(self, v) == [Outcome(self) EXCEPT !.value = v]
Throw(self, x) == [Outcome(self) EXCEPT !.thrown = <<x>>]

(***************************************************************************)
(* Result<OkType, ErrorType>                                               *)
(***************************************************************************)
ResultOk(w) == GenericResult(OkIndex, w.value[1])

\* Faulty variant of the Error constructor: the Ok alternative is selected.
ResultError_OkIndex(w) == GenericResult(OkIndex, w.value[1])

ResultError(w) == GenericResult(ErrorIndex, w.value[1])

AssignOk(r, w) == GenericResult(OkIndex, w.value[1])

\* Faulty variant of operator=(Error): the Ok alternative is selected.
AssignError_OkIndex(r, w) == GenericResult(OkIndex, w.value[1])

AssignError(r, w) == GenericResult(ErrorIndex, w.value[1])

has_value(r) == GetIf(OkIndex, r.m_value) # <<>>

\* Faulty variant of has_error: it looks at the Ok alternative.
has_error_OkIndex(r) == GetIf(OkIndex, r.m_value) # <<>>

has_error(r) == GetIf(ErrorIndex, r.m_value) # <<>>

operator_bool(r) == has_value(r)

\* The object after its active alternative was moved from, leaving m behind.
MovedFrom(r, m) == GenericResult(r.m_value.index, m)

\* Faulty variant of the read form of unwrap: it does what the && overload
\* does, and the payload it hands out is left moved from.
unwrap_moving(r, d) ==
    LET error_ptr == GetIf(ErrorIndex, r.m_value)
        ok_ptr == GetIf(OkIndex, r.m_value)
    IN  IF error_ptr # <<>>
        THEN Throw(MovedFrom(r, 0), BadUnwrapException(error_ptr[1], d))
        ELSE Return(MovedFrom(r, 0), ok_ptr)

\* Faulty variant of unwrap: it throws what error() throws.
unwrap_runtime_error(r, d) ==
    LET error_ptr == GetIf(ErrorIndex, r.m_value)
        ok_ptr == GetIf(OkIndex, r.m_value)
    IN  IF error_ptr # <<>> THEN Throw(r, RuntimeError)
        ELSE Return(r, ok_ptr)

unwrap(r, d) ==
    LET error_ptr == GetIf(ErrorIndex, r.m_value)
        ok_ptr == GetIf(OkIndex, r.m_value)
    IN  IF error_ptr # <<>> THEN Throw(r, BadUnwrapException(error_ptr[1], d))
        ELSE Return(r, ok_ptr)

unwrap_move(r, d, m) ==
    LET error_ptr == GetIf(ErrorIndex, r.m_value)
        ok_ptr == GetIf(OkIndex, r.m_value)
    IN  IF error_ptr # <<>>
        THEN Throw(MovedFrom(r, m), BadUnwrapException(error_ptr[1], d))
        ELSE Return(MovedFrom(r, m), ok_ptr)

\* Faulty variant of error: the branch check is missing and the active
\* alternative is returned whatever it is.
error_unchecked(r) == Return(r, <<r.m_value.value>>)

error(r) ==
    LET ok_ptr == GetIf(OkIndex, r.m_value)
        error_ptr == GetIf(ErrorIndex, r.m_value)
    IN  IF ok_ptr # <<>> THEN Throw(r, RuntimeError)
        ELSE Return(r, error_ptr)

error_move(r, m) ==
    LET ok_ptr == GetIf(OkIndex, r.m_value)
        error_ptr == GetIf(ErrorIndex, r.m_value)
    IN  IF ok_ptr # <<>> THEN Throw(r, RuntimeError)
        ELSE Return(MovedFrom(r, m), error_ptr)

(***************************************************************************)
(* Result<void, ErrorType>                                                 *)
(***************************************************************************)
VoidResultOk(w) == VoidResult(<<>>)

VoidResultError(w) == VoidResult(w.value)

VoidAssignOk(r, w) == VoidResult(<<>>)

VoidAssignError(r, w) == VoidResult(w.value)

void_has_error(r) == r.m_error # <<>>

void_operator_bool(r) == ~void_has_error(r)

void_unwrap(r, d) ==
    IF r.m_error # <<>> THEN Throw(r, BadUnwrapException(r.m_error[1], d))
    ELSE Return(r, <<>>)

void_unwrap_move(r, d, m) ==
    IF r.m_error # <<>>
    THEN Throw(VoidResult(<<m>>), BadUnwrapException(r.m_error[1], d))
    ELSE Return(r, <<>>)

void_error(r) ==
    IF r.m_error = <<>> THEN Throw(r, RuntimeError)
    ELSE Return(r, r.m_error)

void_error_move(r, m) ==
    IF r.m_error = <<>> THEN Throw(r, RuntimeError)
    ELSE Return(VoidResult(<<m>>), r.m_error)

(***************************************************************************)
(* The implicit conversion of a returned Ok / Error wrapper to the         *)
(* Result type the member function declares.                               *)
(***************************************************************************)
Construct(spec, w) ==
    IF spec = "generic"
    THEN IF w.tag = "Ok" THEN ResultOk(w) ELSE ResultError(w)
    ELSE IF w.tag = "Ok" THEN VoidResultOk(w) ELSE VoidResultError(w)

Wrappers(spec) ==
    {Error(e) : e \in Vals}
        \cup (IF spec = "generic" THEN {Ok(v) : v \in Vals} ELSE {OkVoid})

Specs == {"generic", "void"}

\* Result<NewOkType, ErrorType> is the specialization when NewOkType is void.
NewSpec(f) == IF ReturnsVoid(f) THEN "void" ELSE "generic"

Returned(self, calls, spec, w) ==
    [Outcome(self) EXCEPT !.result = <<Construct(spec, w)>>, !.calls = calls]

(***************************************************************************)
(* map / map_error of Result<OkType, ErrorType>                            *)
(***************************************************************************)
map(r, f, d) ==
    IF has_error(r)
    THEN Returned(r, <<>>, NewSpec(f), Error(error(r).value[1]))
    ELSE IF ReturnsVoid(f)
         THEN Returned(r, <<Call(f, unwrap(r, d).value)>>, "void", OkVoid)
         ELSE Returned(r, <<Call(f, unwrap(r, d).value)>>, "generic",
                       Ok(Invoke(f, unwrap(r, d).value)[1]))

\* Faulty variant of the consuming map: the error handed on is read from the
\* Result after its payload was moved out.
map_move_stale_error(r, f, d, m) ==
    IF has_error(r)
    THEN LET e == error_move(r, m)
         IN  Returned(e.self, <<>>, NewSpec(f), Error(e.self.m_value.value))
    ELSE LET u == unwrap_move(r, d, m)
         IN  IF ReturnsVoid(f)
             THEN Returned(u.self,
                           <<Call(f, u.value), Call(f, Invoke(f, u.value))>>,
                           "void", OkVoid)
             ELSE Returned(u.self, <<Call(f, u.value)>>, "generic",
                           Ok(Invoke(f, u.value)[1]))

\* Faulty variant of the consuming map: the success payload is handed on
\* without applying f.
map_move_not_applied(r, f, d, m) ==
    IF has_error(r)
    THEN LET e == error_move(r, m)
         IN  Returned(e.self, <<>>, NewSpec(f), Error(e.value[1]))
    ELSE LET u == unwrap_move(r, d, m)
         IN  IF ReturnsVoid(f)
             THEN Returned(u.self, <<>>, "void", OkVoid)
             ELSE Returned(u.self, <<>>, "generic", Ok(u.value[1]))

map_move(r, f, d, m) ==
    IF has_error(r)
    THEN LET e == error_move(r, m)
         IN  Returned(e.self, <<>>, NewSpec(f), Error(e.value[1]))
    ELSE LET u == unwrap_move(r, d, m)
         IN  IF ReturnsVoid(f)
             THEN \* f(f(std::move(*this).unwrap()))
                  Returned(u.self,
                           <<Call(f, u.value), Call(f, Invoke(f, u.value))>>,
                           "void", OkVoid)
             ELSE Returned(u.self, <<Call(f, u.value)>>, "generic",
                           Ok(Invoke(f, u.value)[1]))

\* Faulty variant of map_error: the branch check is missing and f is applied
\* to the active alternative whatever it is.
map_error_unchecked(r, f, d) ==
    IF has_value(r)
    THEN Returned(r, <<Call(f, unwrap(r, d).value)>>, "generic",
                  Ok(Invoke(f, unwrap(r, d).value)[1]))
    ELSE Returned(r, <<Call(f, error(r).value)>>, "generic",
                  Error(Invoke(f, error(r).value)[1]))

map_error(r, f, d) ==
    IF has_value(r)
    THEN Returned(r, <<>>, "generic", Ok(unwrap(r, d).value[1]))
    ELSE Returned(r, <<Call(f, error(r).value)>>, "generic",
                  Error(Invoke(f, error(r).value)[1]))

map_error_move(r, f, d, m) ==
    IF has_value(r)
    THEN LET u == unwrap_move(r, d, m)
         IN  Returned(u.self, <<>>, "generic", Ok(u.value[1]))
    ELSE LET e == error_move(r, m)
         IN  Returned(e.self, <<Call(f, e.value)>>, "generic",
                      Error(Invoke(f, e.value)[1]))

(***************************************************************************)
(* map / map_error of Result<void, ErrorType>                              *)
(***************************************************************************)
void_map(r, f) ==
    IF r.m_error # <<>>
    THEN Returned(r, <<>>, NewSpec(f), Error(r.m_error[1]))
    ELSE IF ReturnsVoid(f)
         THEN Returned(r, <<Call(f, <<>>)>>, "void", OkVoid)
         ELSE Returned(r, <<Call(f, <<>>)>>, "generic", Ok(Invoke(f, <<>>)[1]))

void_map_move(r, f, m) ==
    IF r.m_error # <<>>
    THEN Returned(VoidResult(<<m>>), <<>>, NewSpec(f), Error(r.m_error[1]))
    ELSE IF ReturnsVoid(f)
         THEN Returned(r, <<Call(f, <<>>)>>, "void", OkVoid)
         ELSE Returned(r, <<Call(f, <<>>)>>, "generic", Ok(Invoke(f, <<>>)[1]))

\* Faulty variant of map_error of the void specialization: the error is
\* handed on without applying f.
void_map_error_not_applied(r, f) ==
    IF r.m_error = <<>>
    THEN Returned(r, <<>>, "void", OkVoid)
    ELSE Returned(r, <<>>, "void", Error(r.m_error[1]))

void_map_error(r, f) ==
    IF r.m_error = <<>>
    THEN Returned(r, <<>>, "void", OkVoid)
    ELSE Returned(r, <<Call(f, r.m_error)>>, "void",
                  Error(Invoke(f, r.m_error)[1]))

void_map_error_move(r, f, m) ==
    IF r.m_error = <<>>
    THEN Returned(r, <<>>, "void", OkVoid)
    ELSE Returned(VoidResult(<<m>>), <<Call(f, r.m_error)>>, "void",
                  Error(Invoke(f, r.m_error)[1]))

(***************************************************************************)
(* The implicitly defined copy and move of a Result.                       *)
(***************************************************************************)
\* Faulty variant of the copy: the payload is copied into the first
\* alternative, as into a default-constructed variant.
Copied_first_alternative(r) ==
    IF r.spec = "generic" THEN GenericResult(OkIndex, r.m_value.value) ELSE r

Copied(r) == r

Moved(r, m) ==
    IF r.spec = "generic" THEN MovedFrom(r, m)
    ELSE IF r.m_error = <<>> THEN r ELSE VoidResult(<<m>>)

(***************************************************************************)
(* Dispatch on the class the object is an instance of.                     *)
(***************************************************************************)
Generic(r) == r.spec = "generic"

Assign(r, w) ==
    IF Generic(r)
    THEN IF w.tag = "Ok" THEN AssignOk(r, w) ELSE AssignError(r, w)
    ELSE IF w.tag = "Ok" THEN VoidAssignOk(r, w) ELSE VoidAssignError(r, w)

HasError(r) == IF Generic(r) THEN has_error(r) ELSE void_has_error(r)

Bool(r) == IF Generic(r) THEN operator_bool(r) ELSE void_operator_bool(r)

Unwrap(r, d) == IF Generic(r) THEN unwrap(r, d) ELSE void_unwrap(r, d)

UnwrapMove(r, d, m) ==
    IF Generic(r) THEN unwrap_move(r, d, m) ELSE void_unwrap_move(r, d, m)

ErrorOf(r) == IF Generic(r) THEN error(r) ELSE void_error(r)

ErrorMove(r, m) == IF Generic(r) THEN error_move(r, m) ELSE void_error_move(r, m)

Map(r, f, d) == IF Generic(r) THEN map(r, f, d) ELSE void_map(r, f)

MapMove(r, f, d, m) ==
    IF Generic(r) THEN map_move(r, f, d, m) ELSE void_map_move(r, f, m)

MapError(r, f, d) == IF Generic(r) THEN map_error(r, f, d) ELSE void_map_error(r, f)

MapErrorMove(r, f, d, m) ==
    IF Generic(r) THEN map_error_move(r, f, d, m) ELSE void_map_error_move(r, f, m)

\* F is invocable with the success payload of r: std::invoke_result_t<F,
\* const OkType&> (OkType&&) is a type, or std::invoke_result_t<F> is.
Accepts(r, f) == IF Generic(r) THEN f[1] \in Unary ELSE f[1] \in Nullary

(***************************************************************************)
(* The caller.  It holds two Result objects and performs one operation at  *)
(* a time; `last` records the operation, the object it was called on as it *)
(* was before the call (pre), the wrapper or transforms passed, and what   *)
(* the call gave back (out).                                               *)
(***************************************************************************)
Other(i) == CHOOSE j \in Slots : j # i

Event(op, form, slot, pre, f, g, w, out) ==
    [op |-> op, form |-> form, slot |-> slot, pre |-> pre, f |-> f, g |-> g,
     w |-> w, out |-> out]

Init ==
    /\ res \in [Slots -> UNION {{Construct(s, w) : w \in Wrappers(s)} : s \in Specs}]
    /\ hasErrorDescription \in BOOLEAN
    /\ last = Event("none", "none", 0, <<>>, <<>>, <<>>, <<>>, <<>>)

\* Result<...> r(w);
CallConstruct(i, s, w) ==
    /\ res' = [res EXCEPT ![i] = Construct(s, w)]
    /\ last' = Event("construct", "none", i, <<>>, <<>>, <<>>, <<w>>,
                     Outcome(Construct(s, w)))
    /\ UNCHANGED hasErrorDescription

\* r = w;
CallAssign(i, w) ==
    /\ w \in Wrappers(res[i].spec)
    /\ res' = [res EXCEPT ![i] = Assign(res[i], w)]
    /\ last' = Event("assign", "none", i, <<res[i]>>, <<>>, <<>>, <<w>>,
                     Outcome(Assign(res[i], w)))
    /\ UNCHANGED hasErrorDescription

\* Result<...> other = r;
CallCopy(i) ==
    /\ res' = [res EXCEPT ![Other(i)] = Copied(res[i])]
    /\ last' = Event("copy", "read", i, <<res[i]>>, <<>>, <<>>, <<>>,
                     Outcome(res[i]))
    /\ UNCHANGED hasErrorDescription

\* Result<...> other = std::move(r);
CallMove(i, m) ==
    /\ res' = [res EXCEPT ![Other(i)] = res[i], ![i] = Moved(res[i], m)]
    /\ last' = Event("move", "move", i, <<res[i]>>, <<>>, <<>>, <<>>,
                     Outcome(Moved(res[i], m)))
    /\ UNCHANGED hasErrorDescription

\* r.has_value()
CallHasValue(i) ==
    /\ Generic(res[i])
    /\ res' = res
    /\ last' = Event("has_value", "read", i, <<res[i]>>, <<>>, <<>>, <<>>,
                     [Outcome(res[i]) EXCEPT !.flag = <<has_value(res[i])>>])
    /\ UNCHANGED hasErrorDescription

\* r.has_error()
CallHasError(i) ==
    /\ res' = res
    /\ last' = Event("has_error", "read", i, <<res[i]>>, <<>>, <<>>, <<>>,
                     [Outcome(res[i]) EXCEPT !.flag = <<HasError(res[i])>>])
    /\ UNCHANGED hasErrorDescription

\* bool(r)
CallBool(i) ==
    /\ res' = res
    /\ last' = Event("bool", "read", i, <<res[i]>>, <<>>, <<>>, <<>>,
                     [Outcome(res[i]) EXCEPT !.flag = <<Bool(res[i])>>])
    /\ UNCHANGED hasErrorDescription

\* r.unwrap()
CallUnwrap(i) ==
    LET out == Unwrap(res[i], hasErrorDescription)
    IN  /\ res' = [res EXCEPT ![i] = out.self]
        /\ last' = Event("unwrap", "read", i, <<res[i]>>, <<>>, <<>>, <<>>, out)
        /\ UNCHANGED hasErrorDescription

\* std::move(r).unwrap()
CallUnwrapMove(i, m) ==
    LET out == UnwrapMove(res[i], hasErrorDescription, m)
    IN  /\ res' = [res EXCEPT ![i] = out.self]
        /\ last' = Event("unwrap", "move", i, <<res[i]>>, <<>>, <<>>, <<>>, out)
        /\ UNCHANGED hasErrorDescription

\* r.error()
CallError(i) ==
    LET out == ErrorOf(res[i])
    IN  /\ res' = [res EXCEPT ![i] = out.self]
        /\ last' = Event("error", "read", i, <<res[i]>>, <<>>, <<>>, <<>>, out)
        /\ UNCHANGED hasErrorDescription

\* std::move(r).error()
CallErrorMove(i, m) ==
    LET out == ErrorMove(res[i], m)
    IN  /\ res' = [res EXCEPT ![i] = out.self]
        /\ last' = Event("error", "move", i, <<res[i]>>, <<>>, <<>>, <<>>, out)
        /\ UNCHANGED hasErrorDescription

\* auto other = r.map(f);
CallMap(i, f) ==
    LET out == Map(res[i], f, hasErrorDescription)
    IN  /\ Accepts(res[i], f)
        /\ res' = [res EXCEPT ![i] = out.self, ![Other(i)] = out.result[1]]
        /\ last' = Event("map", "read", i, <<res[i]>>, f, <<>>, <<>>, out)
        /\ UNCHANGED hasErrorDescription

\* auto other = std::move(r).map(f);
CallMapMove(i, f, m) ==
    LET out == MapMove(res[i], f, hasErrorDescription, m)
    IN  /\ Accepts(res[i], f)
        /\ res' = [res EXCEPT ![i] = out.self, ![Other(i)] = out.result[1]]
        /\ last' = Event("map", "move", i, <<res[i]>>, f, <<>>, <<>>, out)
        /\ UNCHANGED hasErrorDescription

\* auto other = r.map_error(f);
CallMapError(i, f) ==
    LET out == MapError(res[i], f, hasErrorDescription)
    IN  /\ res' = [res EXCEPT ![i] = out.self, ![Other(i)] = out.result[1]]
        /\ last' = Event("map_error", "read", i, <<res[i]>>, f, <<>>, <<>>, out)
        /\ UNCHANGED hasErrorDescription

\* auto other = std::move(r).map_error(f);
CallMapErrorMove(i, f, m) ==
    LET out == MapErrorMove(res[i], f, hasErrorDescription, m)
    IN  /\ res' = [res EXCEPT ![i] = out.self, ![Other(i)] = out.result[1]]
        /\ last' = Event("map_error", "move", i, <<res[i]>>, f, <<>>, <<>>, out)
        /\ UNCHANGED hasErrorDescription

Next ==
    \/ \E i \in Slots, s \in Specs : \E w \in Wrappers(s) : CallConstruct(i, s, w)
    \/ \E i \in Slots, s \in Specs : \E w \in Wrappers(s) : CallAssign(i, w)
    \/ \E i \in Slots : CallCopy(i)
    \/ \E i \in Slots, m \in Vals : CallMove(i, m)
    \/ \E i \in Slots : CallHasValue(i)
    \/ \E i \in Slots : CallHasError(i)
    \/ \E i \in Slots : CallBool(i)
    \/ \E i \in Slots : CallUnwrap(i)
    \/ \E i \in Slots, m \in Vals : CallUnwrapMove(i, m)
    \/ \E i \in Slots : CallError(i)
    \/ \E i \in Slots, m \in Vals : CallErrorMove(i, m)
    \/ \E i \in Slots, f \in Primitives : CallMap(i, f)
    \/ \E i \in Slots, f \in Primitives, m \in Vals : CallMapMove(i, f, m)
    \/ \E i \in Slots, f \in ErrorTransforms : CallMapError(i, f)
    \/ \E i \in Slots, f \in ErrorTransforms, m \in Vals :
           CallMapErrorMove(i, f, m)

Spec == Init /\ [][Next]_vars

(***************************************************************************)
(* The caller chaining two map calls in one expression.  r.map(f) is a     *)
(* temporary, so the second call is always the && overload; the temporary  *)
(* is destroyed at the end of the expression.                              *)
(***************************************************************************)
Chained(first, g, d, m) ==
    LET second == MapMove(first.result[1], g, d, m)
    IN  [second EXCEPT !.self = first.self, !.calls = first.calls \o second.calls]

\* auto other = r.map(f).map(g);
CallMapMap(i, f, g, m) ==
    LET first == Map(res[i], f, hasErrorDescription)
        out == Chained(first, g, hasErrorDescription, m)
    IN  /\ Accepts(res[i], f)
        /\ Accepts(first.result[1], g)
        /\ res' = [res EXCEPT ![i] = out.self, ![Other(i)] = out.result[1]]
        /\ last' = Event("map.map", "read", i, <<res[i]>>, f, g, <<>>, out)
        /\ UNCHANGED hasErrorDescription

\* auto other = std::move(r).map(f).map(g);
CallMapMoveMap(i, f, g, m) ==
    LET first == MapMove(res[i], f, hasErrorDescription, m)
        out == Chained(first, g, hasErrorDescription, m)
    IN  /\ Accepts(res[i], f)
        /\ Accepts(first.result[1], g)
        /\ res' = [res EXCEPT ![i] = out.self, ![Other(i)] = out.result[1]]
        /\ last' = Event("map.map", "move", i, <<res[i]>>, f, g, <<>>, out)
        /\ UNCHANGED hasErrorDescription

NextChain ==
    \/ \E i \in Slots, s \in Specs : \E w \in Wrappers(s) : CallConstruct(i, s, w)
    \/ \E i \in Slots, f, g \in Primitives, m \in Vals : CallMapMap(i, f, g, m)
    \/ \E i \in Slots, f, g \in Primitives, m \in Vals : CallMapMoveMap(i, f, g, m)

SpecChain == Init /\ [][NextChain]_vars

(***************************************************************************)
(* Properties.                                                             *)
(***************************************************************************)
\* The object the last operation was called on, as it was before the call.
Pre == last.pre[1]

\* What is stored in the success / error branch of r, <<>> when the branch is
\* not the active one (or holds nothing).
OkPayload(r) == IF Generic(r) THEN GetIf(OkIndex, r.m_value) ELSE <<>>
ErrorPayload(r) == IF Generic(r) THEN GetIf(ErrorIndex, r.m_value) ELSE r.m_error

\* r answers its observers as a Result in the success branch holding payload v.
ObservedOk(r, v) ==
    /\ Bool(r) /\ ~HasError(r)
    /\ Generic(r) => has_value(r)
    /\ Unwrap(r, hasErrorDescription) = Return(r, v)
    /\ ErrorOf(r) = Throw(r, RuntimeError)

\* r answers its observers as a Result in the error branch holding payload e.
ObservedError(r, e) ==
    /\ HasError(r) /\ ~Bool(r)
    /\ Generic(r) => ~has_value(r)
    /\ ErrorOf(r) = Return(r, e)
    /\ Unwrap(r, hasErrorDescription)
           = Throw(r, BadUnwrapException(e[1], hasErrorDescription))

(* C1: every Result the caller holds, and every Result a call returned, is
   in exactly one branch: has_value() # has_error() for the generic class,
   bool(r) # has_error() for the void specialization (which has no
   has_value member). *)
C1_BranchExclusive ==
    \A r \in {res[i] : i \in Slots}
              \cup (IF last.op = "none" THEN {} ELSE {last.out.self})
              \cup (IF last.op \in {"map", "map_error"}
                    THEN {last.out.result[1]} ELSE {}) :
        IF Generic(r) THEN has_value(r) # has_error(r)
        ELSE void_operator_bool(r) # void_has_error(r)

\* A consuming access has just left a generic Result moved from, next to a
\* Result of the void specialization.
C1_Witness ==
    /\ last.op \in {"unwrap", "error", "map", "map_error"}
    /\ last.form = "move"
    /\ Generic(res[last.slot])
    /\ res[last.slot] # Pre
    /\ ~Generic(res[Other(last.slot)])

(* C2: round trip.  A Result constructed from Ok(v) is in the success branch
   and unwrap() returns v; a Result constructed from Error(e) is in the error
   branch and error() returns e.  The tag alone decides the branch (success
   and error payloads are drawn from the same type). *)
C2_RoundTrip ==
    /\ last.op = "construct" =>
           IF last.w[1].tag = "Ok"
           THEN ObservedOk(res[last.slot], last.w[1].value)
           ELSE ObservedError(res[last.slot], last.w[1].value)
    /\ \A s \in Specs : \A w \in Wrappers(s) :
           last.pre = <<Construct(s, w)>> =>
               /\ last.op = "unwrap" /\ w.tag = "Ok" =>
                      last.out.thrown = <<>> /\ last.out.value = w.value
               /\ last.op = "error" /\ w.tag = "Error" =>
                      last.out.thrown = <<>> /\ last.out.value = w.value

\* unwrap() has just returned 1 from a Result equal to Result(Ok(1)), while
\* the other object is Result(Error(1)).
C2_Witness ==
    /\ last.op = "unwrap"
    /\ Pre = ResultOk(Ok(1))
    /\ last.out.value = <<1>>
    /\ res[Other(last.slot)] = ResultError(Error(1))

(* C3: unwrap(), in its read form and in its consuming form, on a Result in
   the error branch holding e returns no value and throws BadUnwrapException,
   which carries e; unwrap() throws only when the error branch is active. *)
C3_BadUnwrap ==
    last.op = "unwrap" =>
        /\ HasError(Pre) =>
               /\ last.out.value = <<>>
               /\ last.out.thrown # <<>>
               /\ last.out.thrown[1].type = "BadUnwrapException"
               /\ last.out.thrown[1].m_error = ErrorPayload(Pre)
        /\ last.out.thrown # <<>> => HasError(Pre)

\* The consuming unwrap() has just thrown on a generic Result holding the
\* error 2, and the exception carries 2.
C3_Witness ==
    /\ last.op = "unwrap" /\ last.form = "move"
    /\ Pre = ResultError(Error(2))
    /\ last.out.thrown # <<>>
    /\ last.out.thrown[1].m_error = <<2>>

(* C4: error(), in its read form and in its consuming form, on a Result in
   the success branch returns no value and throws std::runtime_error, which
   is not BadUnwrapException and carries no payload; error() throws only when
   the success branch is active, and on the error branch it returns the
   stored error payload. *)
C4_NoErrorPresent ==
    last.op = "error" =>
        /\ Bool(Pre) =>
               /\ last.out.value = <<>>
               /\ last.out.thrown # <<>>
               /\ last.out.thrown[1].type = "runtime_error"
               /\ last.out.thrown[1].type # "BadUnwrapException"
               /\ "m_error" \notin DOMAIN last.out.thrown[1]
        /\ last.out.thrown # <<>> => Bool(Pre)
        /\ HasError(Pre) =>
               last.out.thrown = <<>> /\ last.out.value = ErrorPayload(Pre)

\* The consuming error() has just thrown on a generic Result holding the
\* success payload 2.
C4_Witness ==
    /\ last.op = "error" /\ last.form = "move"
    /\ Pre = ResultOk(Ok(2))
    /\ last.out.thrown = <<RuntimeError>>


\* The Result the last call returned.
Result == last.out.result[1]

(* C5: map(f) on a Result in the success branch holding v, whichever the
   overload (read-only or consuming, f returning a value or void, generic or
   void specialization), invokes f exactly once, with v, and returns a Result
   in the success branch holding f(v) (the empty success when f returns
   void). *)
C5_MapInvokesOnce ==
    last.op = "map" /\ Bool(Pre) =>
        /\ last.out.calls = <<Call(last.f, OkPayload(Pre))>>
        /\ last.out.thrown = <<>>
        /\ ObservedOk(Result, Invoke(last.f, OkPayload(Pre)))

(* C6: map(f) on a Result in the error branch holding e, in its read-only and
   consuming forms (generic and void specialization), never invokes f and
   returns a Result in the error branch holding e. *)
C6_MapOnError ==
    last.op = "map" /\ HasError(Pre) =>
        /\ last.out.calls = <<>>
        /\ last.out.thrown = <<>>
        /\ HasError(Result)
        /\ ErrorOf(Result).value = ErrorOf(Pre).value
        /\ ObservedError(Result, ErrorPayload(Pre))

\* The consuming map has just been called with a void-returning f on a
\* generic Result holding the error 2, which the call left holding 0.
C6_Witness ==
    /\ last.op = "map" /\ last.form = "move"
    /\ Pre = ResultError(Error(2))
    /\ last.out.self = ResultError(Error(0))
    /\ last.f = <<"sink">>
    /\ Result = VoidResultError(Error(2))

(* C7: map_error(f) on a Result in the success branch, in its read-only and
   consuming forms (generic and void specialization), never invokes f and
   returns a Result in the success branch with the same success payload. *)
C7_MapErrorOnOk ==
    last.op = "map_error" /\ Bool(Pre) =>
        /\ last.out.calls = <<>>
        /\ last.out.thrown = <<>>
        /\ ~HasError(Result)
        /\ Unwrap(Result, hasErrorDescription).value
               = Unwrap(Pre, hasErrorDescription).value
        /\ ObservedOk(Result, OkPayload(Pre))

\* The consuming map_error has just been called on a generic Result holding
\* the success payload 1, which the call left holding 2.
C7_Witness ==
    /\ last.op = "map_error" /\ last.form = "move"
    /\ Pre = ResultOk(Ok(1))
    /\ last.out.self = ResultOk(Ok(2))
    /\ Result = ResultOk(Ok(1))

(* C8: map_error(f) on a Result in the error branch holding e, in its
   read-only and consuming forms (generic and void specialization), invokes f
   exactly once, with e, and returns a Result in the error branch holding
   f(e). *)
C8_MapErrorOnError ==
    last.op = "map_error" /\ HasError(Pre) =>
        /\ last.out.calls = <<Call(last.f, ErrorPayload(Pre))>>
        /\ last.out.thrown = <<>>
        /\ ObservedError(Result, Invoke(last.f, ErrorPayload(Pre)))

\* map_error(x => x + 1) has just been called on a Result of the void
\* specialization holding the error 1 and returned one holding 2.
C8_Witness ==
    /\ last.op = "map_error" /\ last.form = "read"
    /\ Pre = VoidResultError(Error(1))
    /\ last.f = <<"inc">>
    /\ Result = VoidResultError(Error(2))


(* C9: functor composition.  For a Result r in the success branch holding v
   and transforms f (returning a value) and g, r.map(f).map(g) is a Result in
   the success branch with the same success payload as r.map(x => g(f(x))),
   namely g(f(v)); for the read-only first call and for the chain of
   consuming calls. *)
C9_MapComposition ==
    last.op = "map.map" /\ Bool(Pre) /\ ~ReturnsVoid(last.f) =>
        LET composed == last.f \o last.g
            payload == Unwrap(Result, hasErrorDescription).value
        IN  /\ Bool(Result) /\ ~HasError(Result)
            /\ last.out.thrown = <<>>
            /\ payload = Unwrap(Map(Pre, composed, hasErrorDescription).result[1],
                                hasErrorDescription).value
            /\ \A m \in Vals :
                   payload = Unwrap(MapMove(Pre, composed, hasErrorDescription,
                                            m).result[1],
                                    hasErrorDescription).value
            /\ payload = Invoke(last.g, Invoke(last.f, OkPayload(Pre)))

\* std::move(r).map(x => x + 1).map(x => x * 2) has just been evaluated on a
\* generic Result holding the success payload 0 and returned one holding 2
\* (the transforms in the other order give 1).
C9_Witness ==
    /\ last.op = "map.map" /\ last.form = "move"
    /\ Pre = ResultOk(Ok(0))
    /\ last.f = <<"inc">> /\ last.g = <<"dbl">>
    /\ Result = ResultOk(Ok(2))
    /\ Invoke(<<"dbl", "inc">>, <<0>>) = <<1>>

(* C10: after an Ok(v) or Error(e) wrapper is assigned into a Result (generic
   or void specialization), the Result is in the branch the wrapper names and
   holds the wrapper's payload, whatever it held before: has_value,
   has_error, bool, unwrap and error answer as on a Result newly constructed
   from that wrapper. *)
C10_AssignReplaces ==
    last.op = "assign" =>
        /\ IF last.w[1].tag = "Ok"
           THEN ObservedOk(res[last.slot], last.w[1].value)
           ELSE ObservedError(res[last.slot], last.w[1].value)
        /\ res[last.slot] = Construct(Pre.spec, last.w[1])

\* Ok(0) has just been assigned into a generic Result that held the error 2.
C10_Witness ==
    /\ last.op = "assign"
    /\ Pre = ResultError(Error(2))
    /\ last.w = <<Ok(0)>>
    /\ res[last.slot] = ResultOk(Ok(0))


(***************************************************************************)
(* The caller holding a Result and a copy of it: `Result copy = original;` *)
(* followed by reassignments of, and consuming accesses to, either of the  *)
(* two.  A Result returned by a consuming map / map_error is a temporary   *)
(* here, kept in neither object.                                           *)
(***************************************************************************)
InitCopy ==
    /\ \E s \in Specs : \E w \in Wrappers(s) :
           /\ res = [i \in Slots |-> IF i = 1 THEN Construct(s, w)
                                     ELSE Copied(Construct(s, w))]
           /\ last = Event("copy", "read", 1, <<Construct(s, w)>>, <<>>, <<>>,
                           <<>>, Outcome(Construct(s, w)))
    /\ hasErrorDescription \in BOOLEAN

\* std::move(r).map(f) evaluated for its result only
CallMapMoveTemp(i, f, m) ==
    LET out == MapMove(res[i], f, hasErrorDescription, m)
    IN  /\ Accepts(res[i], f)
        /\ res' = [res EXCEPT ![i] = out.self]
        /\ last' = Event("map", "move", i, <<res[i]>>, f, <<>>, <<>>, out)
        /\ UNCHANGED hasErrorDescription

\* std::move(r).map_error(f) evaluated for its result only
CallMapErrorMoveTemp(i, f, m) ==
    LET out == MapErrorMove(res[i], f, hasErrorDescription, m)
    IN  /\ res' = [res EXCEPT ![i] = out.self]
        /\ last' = Event("map_error", "move", i, <<res[i]>>, f, <<>>, <<>>, out)
        /\ UNCHANGED hasErrorDescription

NextCopy ==
    \/ \E i \in Slots : CallCopy(i)
    \/ \E i \in Slots, s \in Specs : \E w \in Wrappers(s) : CallAssign(i, w)
    \/ \E i \in Slots, m \in Vals : CallUnwrapMove(i, m)
    \/ \E i \in Slots, m \in Vals : CallErrorMove(i, m)
    \/ \E i \in Slots, f \in Primitives, m \in Vals : CallMapMoveTemp(i, f, m)
    \/ \E i \in Slots, f \in ErrorTransforms, m \in Vals :
           CallMapErrorMoveTemp(i, f, m)

SpecCopy == InitCopy /\ [][NextCopy]_vars

\* r and q are in the same branch and hold equal payloads.
SameBranchAndPayload(r, q) ==
    /\ Bool(r) = Bool(q)
    /\ HasError(r) = HasError(q)
    /\ OkPayload(r) = OkPayload(q)
    /\ ErrorPayload(r) = ErrorPayload(q)

(* C11: a copy of a Result is in the same branch as the original and holds
   an equal payload, and copying leaves the original as it was; afterwards a
   reassignment of, or a consuming access (unwrap, error, map, map_error) to,
   either of the two leaves the other one's branch and payload unchanged. *)
C11_CopyIndependent ==
    /\ [](last.op = "copy" =>
              /\ SameBranchAndPayload(res[Other(last.slot)], Pre)
              /\ SameBranchAndPayload(res[last.slot], Pre))
    /\ [][last'.op \in {"assign", "unwrap", "error", "map", "map_error"} =>
              SameBranchAndPayload(res'[Other(last'.slot)],
                                   res[Other(last'.slot)])]_vars

\* The consuming unwrap() has just moved the payload 1 out of the original,
\* leaving 2 behind, and the copy still holds 1.
C11_Witness ==
    /\ last.op = "unwrap" /\ last.form = "move" /\ last.slot = 1
    /\ Pre = ResultOk(Ok(1))
    /\ res[1] = ResultOk(Ok(2))
    /\ res[2] = ResultOk(Ok(1))


(* C13: has_value(), has_error(), the boolean conversion and the read forms
   of unwrap(), error(), map(f) and map_error(f) leave the Result they are
   called on unchanged (same branch, same payload), when they return and
   when unwrap() / error() throw. *)
C13_ReadOnly ==
    last.form = "read"
    /\ last.op \in {"has_value", "has_error", "bool", "unwrap", "error", "map",
                    "map_error"} =>
        /\ last.out.self = Pre
        /\ res[last.slot] = Pre
        /\ SameBranchAndPayload(res[last.slot], Pre)

\* The read form of unwrap() has just thrown on a generic Result holding the
\* error 1, which still holds it.
C13_Witness ==
    /\ last.op = "unwrap" /\ last.form = "read"
    /\ last.out.thrown # <<>>
    /\ Pre = ResultError(Error(1))
    /\ res[last.slot] = ResultError(Error(1))


(***************************************************************************)
(* Result<void, E> next to Result<EmptyType, E>.  The caller holds one of  *)
(* each (res[1] the specialization, res[2] the generic class over the      *)
(* one-value type EmptyType) and performs every operation on both.  A      *)
(* transform is given the same function on both sides; on the generic side *)
(* it is handed the EmptyType payload, which it ignores.  What a moved-from *)
(* error payload is left holding is decided by ErrorType's move            *)
(* constructor, hence the same on both sides.  Result<void, E> declares no *)
(* has_value(), so that observer is not among the operations.              *)
(***************************************************************************)
\* struct EmptyType {}: its one value
EmptyType == 0

\* The wrapper that constructs on the generic side what w constructs on the
\* specialization.
AsGeneric(w) == IF w.tag = "Ok" THEN Ok(EmptyType) ELSE w

\* What a move leaves in the active alternative of the generic object.
Left(r, m) == IF has_value(r) THEN EmptyType ELSE m

Both(a, b) == [void |-> a, generic |-> b]

InitEquiv ==
    /\ \E w \in Wrappers("void") :
           /\ res = [i \in Slots |-> IF i = 1 THEN Construct("void", w)
                                     ELSE Construct("generic", AsGeneric(w))]
           /\ last = Event("construct", "none", 0, <<>>, <<>>, <<>>, <<w>>,
                           Both(Outcome(Construct("void", w)),
                                Outcome(Construct("generic", AsGeneric(w)))))
    /\ hasErrorDescription \in BOOLEAN

EquivConstruct(w) ==
    /\ res' = [i \in Slots |-> IF i = 1 THEN Construct("void", w)
                               ELSE Construct("generic", AsGeneric(w))]
    /\ last' = Event("construct", "none", 0, <<>>, <<>>, <<>>, <<w>>,
                     Both(Outcome(Construct("void", w)),
                          Outcome(Construct("generic", AsGeneric(w)))))
    /\ UNCHANGED hasErrorDescription

EquivAssign(w) ==
    /\ res' = [i \in Slots |-> IF i = 1 THEN Assign(res[1], w)
                               ELSE Assign(res[2], AsGeneric(w))]
    /\ last' = Event("assign", "none", 0, <<res[1], res[2]>>, <<>>, <<>>, <<w>>,
                     Both(Outcome(Assign(res[1], w)),
                          Outcome(Assign(res[2], AsGeneric(w)))))
    /\ UNCHANGED hasErrorDescription

EquivHasError ==
    /\ res' = res
    /\ last' = Event("has_error", "read", 0, <<res[1], res[2]>>, <<>>, <<>>, <<>>,
                     Both([Outcome(res[1]) EXCEPT !.flag = <<void_has_error(res[1])>>],
                          [Outcome(res[2]) EXCEPT !.flag = <<has_error(res[2])>>]))
    /\ UNCHANGED hasErrorDescription

EquivBool ==
    /\ res' = res
    /\ last' = Event("bool", "read", 0, <<res[1], res[2]>>, <<>>, <<>>, <<>>,
                     Both([Outcome(res[1]) EXCEPT !.flag = <<void_operator_bool(res[1])>>],
                          [Outcome(res[2]) EXCEPT !.flag = <<operator_bool(res[2])>>]))
    /\ UNCHANGED hasErrorDescription

EquivUnwrap ==
    LET a == void_unwrap(res[1], hasErrorDescription)
        b == unwrap(res[2], hasErrorDescription)
    IN  /\ res' = [i \in Slots |-> IF i = 1 THEN a.self ELSE b.self]
        /\ last' = Event("unwrap", "read", 0, <<res[1], res[2]>>, <<>>, <<>>,
                         <<>>, Both(a, b))
        /\ UNCHANGED hasErrorDescription

EquivUnwrapMove(m) ==
    LET a == void_unwrap_move(res[1], hasErrorDescription, m)
        b == unwrap_move(res[2], hasErrorDescription, Left(res[2], m))
    IN  /\ res' = [i \in Slots |-> IF i = 1 THEN a.self ELSE b.self]
        /\ last' = Event("unwrap", "move", 0, <<res[1], res[2]>>, <<>>, <<>>,
                         <<>>, Both(a, b))
        /\ UNCHANGED hasErrorDescription

EquivError ==
    LET a == void_error(res[1])
        b == error(res[2])
    IN  /\ res' = [i \in Slots |-> IF i = 1 THEN a.self ELSE b.self]
        /\ last' = Event("error", "read", 0, <<res[1], res[2]>>, <<>>, <<>>,
                         <<>>, Both(a, b))
        /\ UNCHANGED hasErrorDescription

EquivErrorMove(m) ==
    LET a == void_error_move(res[1], m)
        b == error_move(res[2], Left(res[2], m))
    IN  /\ res' = [i \in Slots |-> IF i = 1 THEN a.self ELSE b.self]
        /\ last' = Event("error", "move", 0, <<res[1], res[2]>>, <<>>, <<>>,
                         <<>>, Both(a, b))
        /\ UNCHANGED hasErrorDescription

\* r.map(f): the Results returned are temporaries.
EquivMap(f) ==
    LET a == void_map(res[1], f)
        b == map(res[2], f, hasErrorDescription)
    IN  /\ res' = [i \in Slots |-> IF i = 1 THEN a.self ELSE b.self]
        /\ last' = Event("map", "read", 0, <<res[1], res[2]>>, f, <<>>, <<>>,
                         Both(a, b))
        /\ UNCHANGED hasErrorDescription

EquivMapMove(f, m) ==
    LET a == void_map_move(res[1], f, m)
        b == map_move(res[2], f, hasErrorDescription, Left(res[2], m))
    IN  /\ res' = [i \in Slots |-> IF i = 1 THEN a.self ELSE b.self]
        /\ last' = Event("map", "move", 0, <<res[1], res[2]>>, f, <<>>, <<>>,
                         Both(a, b))
        /\ UNCHANGED hasErrorDescription

\* auto r2 = r.map_error(f): the caller goes on with the Results returned.
EquivMapError(f) ==
    LET a == void_map_error(res[1], f)
        b == map_error(res[2], f, hasErrorDescription)
    IN  /\ res' = [i \in Slots |-> IF i = 1 THEN a.result[1] ELSE b.result[1]]
        /\ last' = Event("map_error", "read", 0, <<res[1], res[2]>>, f, <<>>,
                         <<>>, Both(a, b))
        /\ UNCHANGED hasErrorDescription

EquivMapErrorMove(f, m) ==
    LET a == void_map_error_move(res[1], f, m)
        b == map_error_move(res[2], f, hasErrorDescription, Left(res[2], m))
    IN  /\ res' = [i \in Slots |-> IF i = 1 THEN a.result[1] ELSE b.result[1]]
        /\ last' = Event("map_error", "move", 0, <<res[1], res[2]>>, f, <<>>,
                         <<>>, Both(a, b))
        /\ UNCHANGED hasErrorDescription

\* The transforms map accepts on Result<void, E>.
EmptyTransforms == {f \in Primitives : f[1] \in Nullary}

NextEquiv ==
    \/ \E w \in Wrappers("void") : EquivConstruct(w)
    \/ \E w \in Wrappers("void") : EquivAssign(w)
    \/ EquivHasError
    \/ EquivBool
    \/ EquivUnwrap
    \/ \E m \in Vals : EquivUnwrapMove(m)
    \/ EquivError
    \/ \E m \in Vals : EquivErrorMove(m)
    \/ \E f \in EmptyTransforms : EquivMap(f)
    \/ \E f \in EmptyTransforms, m \in Vals : EquivMapMove(f, m)
    \/ \E f \in ErrorTransforms : EquivMapError(f)
    \/ \E f \in ErrorTransforms, m \in Vals : EquivMapErrorMove(f, m)

SpecEquiv == InitEquiv /\ [][NextEquiv]_vars

\* v, of the specialization, and g, of the generic class over EmptyType, are
\* in the same branch and hold the same error payload.
Related(v, g) ==
    /\ ~Generic(v) /\ Generic(g)
    /\ void_has_error(v) = has_error(g)
    /\ void_operator_bool(v) = operator_bool(g)
    /\ v.m_error = GetIf(ErrorIndex, g.m_value)
    /\ has_value(g) => g.m_value.value = EmptyType

\* What the two sides of the last operation gave back agrees, but for the
\* number of invocations of the transform.
SameAnswers ==
    LET a == last.out.void
        b == last.out.generic
    IN  /\ Related(a.self, b.self)
        /\ a.flag = b.flag
        /\ a.thrown = b.thrown
        /\ last.op = "error" => a.value = b.value
        /\ last.op = "map" => a.result = b.result
        /\ last.op = "map_error" => Related(a.result[1], b.result[1])

(* C12: Result<void, E> behaves as Result<EmptyType, E>: after the same
   sequence of operations on both, the two are in the same branch with the
   same error payload, each operation raised the same failure (or none) and
   returned related answers on both, and the transform was invoked the same
   number of times on both. *)
C12_VoidEquivalent ==
    /\ Related(res[1], res[2])
    /\ SameAnswers
    /\ Len(last.out.void.calls) = Len(last.out.generic.calls)

\* The same, the consuming map with a transform returning void on the success
\* branch set aside.
VoidEquivalentButConsumingVoidMap ==
    /\ Related(res[1], res[2])
    /\ SameAnswers
    /\ ~(last.op = "map" /\ last.form = "move" /\ ReturnsVoid(last.f)
         /\ has_value(last.pre[2])) =>
           Len(last.out.void.calls) = Len(last.out.generic.calls)

====
